---- MODULE Spec2Model ----
(***************************************************************************)
(* Model of the AyurBot chat endpoint (src/app/api/chat/route.ts): the     *)
(* POST handler with its awaits as suspension points, and the withRetry    *)
(* helper as a separate state machine.                                     *)
(*                                                                         *)
(* JavaScript strings are sequences of tokens: "" is << >>, a token is an  *)
(* indivisible chunk of text, String.includes is contiguous-subsequence    *)
(* containment.  The value undefined/null in a string position is the      *)
(* reserved one-token sequence Undefined.                                  *)
(***************************************************************************)
EXTENDS Integers, Sequences, FiniteSets, TLC

\* ---------------------------------------------------------------- bounds
MaxHist == 2
MaxMatches == 1
MaxRetriesBound == 4
MaxContextMatches == 4
MaxSends == 2
NumRequests == 2

\* ------------------------------------------------------- program constants
DefaultMaxRetries == 3
DefaultDelayMs == 1000
NoStatus == 0

Requests == 1..NumRequests

\* --------------------------------------------------------- JS value model
Undefined == << "<undefined>" >>

Truthy(s) == s # Undefined /\ s # << >>

\* a || b on string-valued operands
Or(a, b) == IF Truthy(a) THEN a ELSE b

\* s.includes(needle)
Includes(s, needle) ==
  \E i \in 0..(Len(s) - Len(needle)) : SubSeq(s, i + 1, i + Len(needle)) = needle

\* ------------------------------------------------------------ input shapes
NullPart == [kind |-> "null"]
TextPart(t) == [kind |-> "object", text |-> t]

FirstParts == {NullPart, TextPart(Undefined), TextPart(<< >>), TextPart(<<"a">>), TextPart(<<"b">>)}

PartsValues ==
  {[kind |-> "missing", items |-> << >>], [kind |-> "notArray", items |-> << >>],
   [kind |-> "array", items |-> << >>]}
  \cup {[kind |-> "array", items |-> <<p>>] : p \in FirstParts}
  \cup {[kind |-> "array", items |-> <<TextPart(<<"a">>), TextPart(<<"z">>)>>]}

NullEntry == [kind |-> "null"]
Entry(r, p) == [kind |-> "object", role |-> r, parts |-> p]

RawEntries ==
  {NullEntry}
  \cup {Entry(<<"user">>, p) : p \in PartsValues}
  \cup {Entry(<<"model">>, [kind |-> "array", items |-> <<TextPart(<<"b">>)>>]),
        Entry(<<"model">>, [kind |-> "array", items |-> <<NullPart>>]),
        Entry(Undefined, [kind |-> "array", items |-> <<TextPart(<<"a">>)>>])}

SeqsUpTo(S, n) == UNION {[1..k -> S] : k \in 0..n}

HistoryValues ==
  {[kind |-> "missing", items |-> << >>], [kind |-> "notArray", items |-> << >>]}
  \cup {[kind |-> "array", items |-> h] : h \in SeqsUpTo(RawEntries, MaxHist)}

Questions == {Undefined, << >>, <<"q">>}

\* request bodies: JSON objects {question, history}, and a body that is not JSON
InvalidBody == [valid |-> FALSE, question |-> Undefined,
                history |-> [kind |-> "missing", items |-> << >>]]
Bodies == {[valid |-> TRUE, question |-> q, history |-> h] :
             q \in Questions, h \in HistoryValues} \cup {InvalidBody}

\* text of a generateContent response (response.text may be undefined or "")
ResponseTexts == {Undefined, <<"r">>}

\* metadata.text of a match (missing metadata/text is Undefined)
MatchTexts == {Undefined, <<" ">>, <<"A">>}
MatchLists == SeqsUpTo(MatchTexts, MaxMatches)

\* ------------------------------------------------------------------ errors
Statuses == {NoStatus, 403, 429, 503}
Messages == {Undefined, <<"overloaded">>, <<"bad ", "API key", " given">>,
             <<"quota", " exceeded">>, <<"API key", " ", "quota">>}

Err(s, m, n) == [status |-> s, message |-> m, name |-> n]
ServiceErrors == {Err(s, m, "ApiError") : s \in Statuses, m \in Messages}
TypeError == Err(NoStatus, <<"Cannot read properties">>, "TypeError")
SyntaxError == Err(NoStatus, <<"Unexpected token">>, "SyntaxError")
NoError == Err(NoStatus, Undefined, "")

\* ------------------------------------------------- History Normalizer
\* the filter callback raises TypeError when it reads .text of a null part
FilterThrows(msg) ==
  /\ msg.kind = "object"
  /\ Truthy(msg.role)
  /\ msg.parts.kind = "array"
  /\ Len(msg.parts.items) > 0
  /\ msg.parts.items[1].kind = "null"

FilterKeeps(msg) ==
  /\ msg.kind = "object"
  /\ Truthy(msg.role)
  /\ msg.parts.kind = "array"
  /\ Len(msg.parts.items) > 0
  /\ msg.parts.items[1].kind = "object"
  /\ Truthy(msg.parts.items[1].text)

MapEntry(msg) == [role |-> msg.role, parts |-> <<[text |-> msg.parts.items[1].text]>>]

RECURSIVE FilterMap(_)
FilterMap(items) ==
  IF items = << >> THEN << >>
  ELSE (IF FilterKeeps(Head(items)) THEN <<MapEntry(Head(items))>> ELSE << >>)
       \o FilterMap(Tail(items))

\* (history || []).filter(...).map(...): the result, or the TypeError raised
NormalizeThrows(history) ==
  \/ history.kind = "notArray"
  \/ \E i \in 1..Len(history.items) : FilterThrows(history.items[i])

NormalizeValue(history) == FilterMap(history.items)

RECURSIVE UserTexts(_)
UserTexts(fh) ==
  IF fh = << >> THEN << >>
  ELSE (IF Head(fh).role = <<"user">> THEN <<Head(fh).parts[1].text>> ELSE << >>)
       \o UserTexts(Tail(fh))

\* ----------------------------------------------------- Query Rewriter
\* the fallback chain without its last literal
EnhancedQuestion_NoLiteral(text, followUpQuestion) == Or(text, followUpQuestion)

EnhancedQuestion(rewriteText, followUpQuestion) ==
  Or(Or(rewriteText, followUpQuestion), <<"No question generated.">>)

UserTurn(text) == [role |-> <<"user">>, parts |-> <<[text |-> text]>>]

\* the post-step without the pop
ReplaceLast_AlwaysAppend(fh, text) == fh \o <<UserTurn(text)>>

ReplaceLast(fh, text) ==
  (IF Len(fh) > 0 /\ fh[Len(fh)].role = <<"user">>
   THEN SubSeq(fh, 1, Len(fh) - 1) ELSE fh) \o <<UserTurn(text)>>

\* --------------------------------------------------- Context Retriever
Whitespace == {" ", "\n"}
Separator == <<"\n\n---\n\n">>

RECURSIVE TrimLeft(_)
TrimLeft(s) == IF s # << >> /\ Head(s) \in Whitespace THEN TrimLeft(Tail(s)) ELSE s

RECURSIVE TrimRight(_)
TrimRight(s) ==
  IF s # << >> /\ s[Len(s)] \in Whitespace THEN TrimRight(SubSeq(s, 1, Len(s) - 1)) ELSE s

Trim(s) == TrimRight(TrimLeft(s))

\* String(m.metadata?.text ?? "")
MatchText(t) == IF t = Undefined THEN << >> ELSE t

RECURSIVE Join(_, _)
Join(texts, sep) ==
  IF texts = << >> THEN << >>
  ELSE IF Len(texts) = 1 THEN Head(texts)
  ELSE Head(texts) \o sep \o Join(Tail(texts), sep)

\* the filter without trim()
RECURSIVE NonBlank_NoTrim(_)
NonBlank_NoTrim(matches) ==
  IF matches = << >> THEN << >>
  ELSE (IF Len(MatchText(Head(matches))) > 0 THEN <<MatchText(Head(matches))>> ELSE << >>)
       \o NonBlank_NoTrim(Tail(matches))

RECURSIVE NonBlank(_)
NonBlank(matches) ==
  IF matches = << >> THEN << >>
  ELSE (IF Len(Trim(MatchText(Head(matches)))) > 0 THEN <<MatchText(Head(matches))>> ELSE << >>)
       \o NonBlank(Tail(matches))

Context(matches) == Join(NonBlank(matches), Separator)

\* the context interpolated without its placeholder
SystemContext_NoPlaceholder(ctx) == ctx

SystemContext(ctx) == Or(ctx, <<"No relevant context found.">>)

\* the template literal of systemInstruction: fixed persona text, then the context
Persona == <<"You are AyurBot ... Context: ">>
SystemInstruction(ctx) == Persona \o SystemContext(ctx)

FallbackAnswer == <<"I'm here to guide you on Ayurveda, yoga, and holistic well-being.">>
Answer(text) == Or(text, FallbackAnswer)

\* ----------------------------------------------------- Error Classifier
\* error.message?.includes(needle)
MessageIncludes(error, needle) ==
  error.message # Undefined /\ Includes(error.message, needle)

IsConfiguration(error) == MessageIncludes(error, <<"API key">>) \/ error.status = 403
IsCapacity(error) == MessageIncludes(error, <<"quota">>) \/ error.status = 429

\* the two tests in the opposite order
Classify_CapacityFirst(error) ==
  IF IsCapacity(error) THEN "capacity"
  ELSE IF IsConfiguration(error) THEN "configuration"
  ELSE "generic"

Classify(error) ==
  IF IsConfiguration(error) THEN "configuration"
  ELSE IF IsCapacity(error) THEN "capacity"
  ELSE "generic"

\* the capacity response without its {status: 503}
StatusOf_AllServerError(category) == 500

StatusOf(category) ==
  CASE category = "configuration" -> 500
    [] category = "capacity" -> 503
    [] OTHER -> 500

ConfigurationText == <<"Configuration issue with AI service">>
CapacityText == <<"Service temporarily unavailable due to ", "quota", " limits">>
GenericText == <<"Chat service temporarily unavailable">>

ErrorBody(error) ==
  CASE Classify(error) = "configuration" ->
         [error |-> ConfigurationText,
          details |-> <<"API key problem">>, errorType |-> Undefined]
    [] Classify(error) = "capacity" ->
         [error |-> CapacityText,
          details |-> <<"Try again later">>, errorType |-> Undefined]
    [] OTHER ->
         [error |-> GenericText,
          details |-> Or(error.message, <<"Unknown error">>),
          errorType |-> <<error.name>>]

ErrorResponse(error) ==
  [status |-> StatusOf(Classify(error)), kind |-> "error", answer |-> Undefined,
   body |-> ErrorBody(error)]

SuccessResponse(answer) ==
  [status |-> 200, kind |-> "answer", answer |-> answer,
   body |-> [error |-> Undefined, details |-> Undefined, errorType |-> Undefined]]

NoResponse ==
  [status |-> 0, kind |-> "none", answer |-> Undefined,
   body |-> [error |-> Undefined, details |-> Undefined, errorType |-> Undefined]]

\* --------------------------------------------------------- POST handler
VARIABLES pc, body, formattedHistory, userHistory, enhancedQuestion, context,
          response, caught, escaped, inflight, calls

\* what the rewrite call returned and what is passed to embedQuery; what the
\* vector query returned and the systemInstruction passed to the generate call
VARIABLES rewriteText, embedInput, searchResults, systemInstruction

rewriteIO == <<rewriteText, embedInput>>
queryIO == <<searchResults, systemInstruction>>

postVars == <<pc, body, formattedHistory, userHistory, enhancedQuestion, context,
              response, caught, escaped, inflight, calls, rewriteIO, queryIO>>

\* withRetry: its parameters and locals, its position, and a log of what
\* fn did on each invocation and of the delays taken
VARIABLES attempt, maxRetries, delayMs, rpc, result, outcomes, delays

\* the delayMs argument withRetry was called with
VARIABLES initialDelayMs

retryVars == <<attempt, maxRetries, delayMs, rpc, result, outcomes, delays,
               initialDelayMs>>

\* the context construction on its own: the metadata texts given and the
\* context block built from them
VARIABLES matchesIn, contextOut

contextVars == <<matchesIn, contextOut>>

\* the chat page: its React state, the position of handleSend, the request
\* body captured by the running handleSend, the HTTP response it received,
\* and logs of the requests sent and of the calls of handleSend
VARIABLES messages, input, loading, ppc, fetchBody, received, sent, handleSendCalls

pageVars == <<messages, input, loading, ppc, fetchBody, received, sent, handleSendCalls>>

outsidePost == <<retryVars, contextVars, pageVars>>
outsideRetry == <<postVars, contextVars, pageVars>>

vars == <<postVars, retryVars, contextVars, pageVars>>

PostInit ==
  /\ pc = [r \in Requests |-> "idle"]
  /\ body = [r \in Requests |-> InvalidBody]
  /\ formattedHistory = [r \in Requests |-> << >>]
  /\ userHistory = [r \in Requests |-> << >>]
  /\ enhancedQuestion = [r \in Requests |-> Undefined]
  /\ context = [r \in Requests |-> Undefined]
  /\ response = [r \in Requests |-> NoResponse]
  /\ caught = [r \in Requests |-> NoError]
  /\ escaped = [r \in Requests |-> NoError]
  /\ inflight = [r \in Requests |-> {}]
  /\ calls = [r \in Requests |-> << >>]
  /\ rewriteText = [r \in Requests |-> Undefined]
  /\ embedInput = [r \in Requests |-> Undefined]
  /\ searchResults = [r \in Requests |-> << >>]
  /\ systemInstruction = [r \in Requests |-> Undefined]

\* `next` is issued without waiting for `done`
Await_NoWait(r, done, next) ==
  /\ inflight' = [inflight EXCEPT ![r] = @ \cup {next}]
  /\ calls' = [calls EXCEPT ![r] = Append(@, next)]

\* the awaited call `done` has settled and the call `next` is issued
Await(r, done, next) ==
  /\ inflight' = [inflight EXCEPT ![r] = (@ \ {done}) \cup {next}]
  /\ calls' = [calls EXCEPT ![r] = Append(@, next)]

\* the awaited call `done` has settled and no further call is issued
Settle(r, done) ==
  /\ inflight' = [inflight EXCEPT ![r] = @ \ {done}]
  /\ UNCHANGED calls

\* the catch block writing its response where every request reads it
Catch_Shared(r, error) ==
  /\ caught' = [caught EXCEPT ![r] = error]
  /\ response' = [q \in Requests |-> ErrorResponse(error)]
  /\ pc' = [pc EXCEPT ![r] = "done"]

\* catch (error) { ... return NextResponse.json(..., {status}) }
Catch(r, error) ==
  /\ caught' = [caught EXCEPT ![r] = error]
  /\ response' = [response EXCEPT ![r] = ErrorResponse(error)]
  /\ pc' = [pc EXCEPT ![r] = "done"]

\* POST is invoked: the session lookup is issued before the try block
Invoke(r, B) ==
  /\ UNCHANGED outsidePost
  /\ UNCHANGED <<rewriteIO, queryIO>>
  /\ pc[r] = "idle"
  /\ \E b \in B :
       /\ body' = [body EXCEPT ![r] = b]
       /\ pc' = [pc EXCEPT ![r] = "await_session"]
       /\ inflight' = [inflight EXCEPT ![r] = @ \cup {"session"}]
       /\ calls' = [calls EXCEPT ![r] = Append(@, "session")]
       /\ UNCHANGED <<formattedHistory, userHistory, enhancedQuestion, context,
                      response, caught, escaped>>

SessionReturns(r) ==
  /\ UNCHANGED outsidePost
  /\ UNCHANGED <<rewriteIO, queryIO>>
  /\ pc[r] = "await_session"
  /\ pc' = [pc EXCEPT ![r] = "await_json"]
  /\ Settle(r, "session")
  /\ UNCHANGED <<body, formattedHistory, userHistory, enhancedQuestion, context,
                 response, caught, escaped>>

\* getServerSession rejects outside the try block: the rejection leaves POST
SessionFails(r, E) ==
  /\ UNCHANGED outsidePost
  /\ UNCHANGED <<rewriteIO, queryIO>>
  /\ pc[r] = "await_session"
  /\ \E error \in E :
       /\ pc' = [pc EXCEPT ![r] = "escaped"]
       /\ escaped' = [escaped EXCEPT ![r] = error]
       /\ Settle(r, "session")
       /\ UNCHANGED <<body, formattedHistory, userHistory, enhancedQuestion, context,
                      response, caught>>

\* req.json() resolves; history is normalized and the rewrite call is issued
JsonReturns(r) ==
  /\ UNCHANGED outsidePost
  /\ UNCHANGED <<rewriteIO, queryIO>>
  /\ pc[r] = "await_json"
  /\ body[r].valid
  /\ IF NormalizeThrows(body[r].history)
     THEN /\ Catch(r, TypeError)
          /\ UNCHANGED <<formattedHistory, userHistory, inflight, calls>>
     ELSE /\ formattedHistory' =
               [formattedHistory EXCEPT ![r] = NormalizeValue(body[r].history)]
          /\ userHistory' =
               [userHistory EXCEPT ![r] = UserTexts(NormalizeValue(body[r].history))]
          /\ pc' = [pc EXCEPT ![r] = "await_rewrite"]
          /\ Await(r, "json", "rewrite")
          /\ UNCHANGED <<response, caught>>
  /\ UNCHANGED <<body, enhancedQuestion, context, escaped>>

\* req.json() rejects (the body is not JSON)
JsonFails(r) ==
  /\ UNCHANGED outsidePost
  /\ UNCHANGED <<rewriteIO, queryIO>>
  /\ pc[r] = "await_json"
  /\ ~body[r].valid
  /\ Catch(r, SyntaxError)
  /\ UNCHANGED <<body, formattedHistory, userHistory, enhancedQuestion, context,
                 escaped, inflight, calls>>

\* the rewrite generateContent call resolves with response text `text`
RewriteReturns(r, T) ==
  /\ UNCHANGED outsidePost
  /\ UNCHANGED queryIO
  /\ pc[r] = "await_rewrite"
  /\ \E text \in T :
       /\ rewriteText' = [rewriteText EXCEPT ![r] = text]
       /\ enhancedQuestion' =
            [enhancedQuestion EXCEPT ![r] = EnhancedQuestion(text, body[r].question)]
       /\ embedInput' =
            [embedInput EXCEPT ![r] = EnhancedQuestion(text, body[r].question)]
       /\ formattedHistory' =
            [formattedHistory EXCEPT ![r] =
               ReplaceLast(@, EnhancedQuestion(text, body[r].question))]
       /\ pc' = [pc EXCEPT ![r] = "await_embed"]
       /\ Await(r, "rewrite", "embed")
       /\ UNCHANGED <<body, userHistory, context, response, caught, escaped>>

\* the rewrite call rejects: POST calls generateContent directly, so the
\* rejection goes straight to the catch block
RewriteFails(r, E) ==
  /\ UNCHANGED outsidePost
  /\ UNCHANGED <<rewriteIO, queryIO>>
  /\ pc[r] = "await_rewrite"
  /\ \E error \in E :
       /\ Catch(r, error)
       /\ Settle(r, "rewrite")
       /\ UNCHANGED <<body, formattedHistory, userHistory, enhancedQuestion, context,
                      escaped>>

EmbedReturns(r) ==
  /\ UNCHANGED outsidePost
  /\ UNCHANGED <<rewriteIO, queryIO>>
  /\ pc[r] = "await_embed"
  /\ pc' = [pc EXCEPT ![r] = "await_query"]
  /\ Await(r, "embed", "query")
  /\ UNCHANGED <<body, formattedHistory, userHistory, enhancedQuestion, context,
                 response, caught, escaped>>

EmbedFails(r, E) ==
  /\ UNCHANGED outsidePost
  /\ UNCHANGED <<rewriteIO, queryIO>>
  /\ pc[r] = "await_embed"
  /\ \E error \in E :
       /\ Catch(r, error)
       /\ Settle(r, "embed")
       /\ UNCHANGED <<body, formattedHistory, userHistory, enhancedQuestion, context,
                      escaped>>

QueryReturns(r, M) ==
  /\ UNCHANGED outsidePost
  /\ UNCHANGED rewriteIO
  /\ pc[r] = "await_query"
  /\ \E matches \in M :
       /\ searchResults' = [searchResults EXCEPT ![r] = matches]
       /\ context' = [context EXCEPT ![r] = Context(matches)]
       /\ systemInstruction' =
            [systemInstruction EXCEPT ![r] = SystemInstruction(Context(matches))]
       /\ pc' = [pc EXCEPT ![r] = "await_generate"]
       /\ Await(r, "query", "generate")
       /\ UNCHANGED <<body, formattedHistory, userHistory, enhancedQuestion,
                      response, caught, escaped>>

QueryFails(r, E) ==
  /\ UNCHANGED outsidePost
  /\ UNCHANGED <<rewriteIO, queryIO>>
  /\ pc[r] = "await_query"
  /\ \E error \in E :
       /\ Catch(r, error)
       /\ Settle(r, "query")
       /\ UNCHANGED <<body, formattedHistory, userHistory, enhancedQuestion, context,
                      escaped>>

GenerateReturns(r, T) ==
  /\ UNCHANGED outsidePost
  /\ UNCHANGED <<rewriteIO, queryIO>>
  /\ pc[r] = "await_generate"
  /\ \E text \in T :
       /\ response' = [response EXCEPT ![r] = SuccessResponse(Answer(text))]
       /\ pc' = [pc EXCEPT ![r] = "done"]
       /\ Settle(r, "generate")
       /\ UNCHANGED <<body, formattedHistory, userHistory, enhancedQuestion, context,
                      caught, escaped>>

GenerateFails(r, E) ==
  /\ UNCHANGED outsidePost
  /\ UNCHANGED <<rewriteIO, queryIO>>
  /\ pc[r] = "await_generate"
  /\ \E error \in E :
       /\ Catch(r, error)
       /\ Settle(r, "generate")
       /\ UNCHANGED <<body, formattedHistory, userHistory, enhancedQuestion, context,
                      escaped>>

\* ------------------------------------------------------------ withRetry
RetryErrors == {Err(st, m, "ApiError") : st \in {NoStatus, 429, 503},
                                         m \in {<<"overloaded">>, <<"quota", " exceeded">>}}
ExhaustedError == Err(NoStatus, <<"Max retries reached without success">>, "Error")
FnValue == <<"value">>
DelayChoices == {DefaultDelayMs, 250}
RetryBudgets == (-1)..MaxRetriesBound

NoResult == [kind |-> "none", value |-> Undefined, error |-> NoError]
Returned(v) == [kind |-> "value", value |-> v, error |-> NoError]
Thrown(e) == [kind |-> "error", value |-> Undefined, error |-> e]

Ok == [ok |-> TRUE, error |-> NoError]
Failed(e) == [ok |-> FALSE, error |-> e]

RetryInit ==
  /\ attempt = 0
  /\ maxRetries = DefaultMaxRetries
  /\ delayMs = DefaultDelayMs
  /\ rpc = "idle"
  /\ result = NoResult
  /\ outcomes = << >>
  /\ delays = << >>
  /\ initialDelayMs = DefaultDelayMs

\* the catch without the status test
ShouldRetry_AnyError(error, att, max) == att < max

\* the catch with attempt <= maxRetries
ShouldRetry_OffByOne(error, att, max) == error.status = 503 /\ att <= max

\* catch: error.status === 503 && attempt < maxRetries
ShouldRetry(error, att, max) == error.status = 503 /\ att < max

\* the loop test with attempt < maxRetries
LoopTest_Strict(att, max) == att < max

\* for-loop test; on entry fn is invoked, otherwise the loop falls through
LoopTest(att, max) == att <= max

\* the backoff without the doubling
NextDelay_Constant(d) == d

\* delayMs *= 2
NextDelay(d) == d * 2

\* withRetry(fn, m, d) is called: the loop starts with attempt = 1
RetryStart(m, d) ==
  /\ UNCHANGED outsideRetry
  /\ rpc = "idle"
  /\ maxRetries' = m
  /\ delayMs' = d
  /\ initialDelayMs' = d
  /\ attempt' = 1
  /\ IF LoopTest(1, m)
     THEN rpc' = "await_fn" /\ result' = result
     ELSE rpc' = "thrown" /\ result' = Thrown(ExhaustedError)
  /\ UNCHANGED <<outcomes, delays>>

\* fn() resolves: return await fn()
FnReturns ==
  /\ UNCHANGED outsideRetry
  /\ rpc = "await_fn"
  /\ outcomes' = Append(outcomes, Ok)
  /\ result' = Returned(FnValue)
  /\ rpc' = "returned"
  /\ UNCHANGED <<attempt, maxRetries, delayMs, delays, initialDelayMs>>

\* fn() rejects with `error`: either the backoff timer is started or the
\* error is rethrown
FnFails(error) ==
  /\ UNCHANGED outsideRetry
  /\ rpc = "await_fn"
  /\ outcomes' = Append(outcomes, Failed(error))
  /\ IF ShouldRetry(error, attempt, maxRetries)
     THEN /\ rpc' = "await_delay"
          /\ delays' = Append(delays, delayMs)
          /\ result' = result
     ELSE /\ rpc' = "thrown"
          /\ result' = Thrown(error)
          /\ delays' = delays
  /\ UNCHANGED <<attempt, maxRetries, delayMs, initialDelayMs>>

\* the loop without attempt++
DelayElapses_NoIncrement ==
  /\ UNCHANGED outsideRetry
  /\ rpc = "await_delay"
  /\ delayMs' = NextDelay(delayMs)
  /\ attempt' = attempt
  /\ IF LoopTest(attempt, maxRetries)
     THEN rpc' = "await_fn" /\ result' = result
     ELSE rpc' = "thrown" /\ result' = Thrown(ExhaustedError)
  /\ UNCHANGED <<maxRetries, outcomes, delays, initialDelayMs>>

\* the timer fires: delayMs *= 2; attempt++; loop test; fn() again
DelayElapses ==
  /\ UNCHANGED outsideRetry
  /\ rpc = "await_delay"
  /\ delayMs' = NextDelay(delayMs)
  /\ attempt' = attempt + 1
  /\ IF LoopTest(attempt + 1, maxRetries)
     THEN rpc' = "await_fn" /\ result' = result
     ELSE rpc' = "thrown" /\ result' = Thrown(ExhaustedError)
  /\ UNCHANGED <<maxRetries, outcomes, delays, initialDelayMs>>

\* ------------------------------------------- context construction alone
ContextTexts == {Undefined, << >>, <<" ">>, <<"A">>, <<"B">>, <<" ", "A">>}
ContextInputs == SeqsUpTo(ContextTexts, MaxContextMatches)

ContextInit ==
  /\ matchesIn = << >>
  /\ contextOut = Undefined

\* searchResults.matches.map(...).filter(...).join(...)
BuildContext ==
  /\ UNCHANGED <<postVars, retryVars, pageVars>>
  /\ contextOut = Undefined
  /\ contextOut' = Context(matchesIn)
  /\ UNCHANGED matchesIn

\* ------------------------------------------------------------- chat page
Greeting == <<"Namaste! I'm AyurBot ...">>
BotMessage(text) == [sender |-> "bot", text |-> text]
UserMessage(text) == [sender |-> "user", text |-> text]

NoFetchBody == [valid |-> FALSE, question |-> Undefined,
                history |-> [kind |-> "array", items |-> << >>]]
NoHttpResponse == [status |-> 0, ok |-> FALSE, json |-> FALSE,
                   answer |-> Undefined, error |-> Undefined]

\* ---- cleanBotText
\* .replace(/#+\s?/g, ""): each run of "#" and one whitespace after it
RECURSIVE SkipHashes(_)
SkipHashes(s) == IF s # << >> /\ Head(s) = "#" THEN SkipHashes(Tail(s)) ELSE s

RECURSIVE RemoveHeadings(_)
RemoveHeadings(s) ==
  IF s = << >> THEN << >>
  ELSE IF Head(s) = "#"
       THEN LET rest == SkipHashes(s)
            IN IF rest # << >> /\ Head(rest) \in Whitespace
               THEN RemoveHeadings(Tail(rest))
               ELSE RemoveHeadings(rest)
       ELSE <<Head(s)>> \o RemoveHeadings(Tail(s))

\* .replace(/\*\*/g, ""): "**", also when made of two adjacent "*"
RECURSIVE RemoveBold(_)
RemoveBold(s) ==
  IF s = << >> THEN << >>
  ELSE IF Head(s) = "**" THEN RemoveBold(Tail(s))
  ELSE IF Head(s) = "*" /\ Len(s) >= 2 /\ s[2] = "*" THEN RemoveBold(Tail(Tail(s)))
  ELSE <<Head(s)>> \o RemoveBold(Tail(s))

\* .replace(/^\s*[-*]\s*/gm, ""): at a line start, whitespace, one "-" or "*",
\* whitespace
RECURSIVE RemoveBullets(_, _)
RemoveBullets(s, lineStart) ==
  IF s = << >> THEN << >>
  ELSE LET w == TrimLeft(s)
       IN IF lineStart /\ w # << >> /\ Head(w) \in {"-", "*"}
          THEN LET rest == TrimLeft(Tail(w))
                   consumed == Len(Tail(w)) - Len(rest)
               IN RemoveBullets(rest, consumed > 0 /\ Tail(w)[consumed] = "\n")
          ELSE <<Head(s)>> \o RemoveBullets(Tail(s), Head(s) = "\n")

CleanBotText(text) == Trim(RemoveBullets(RemoveBold(RemoveHeadings(text)), TRUE))

\* ---- what fetch can resolve with
PageAnswers == {<<"r">>, FallbackAnswer, <<" ">>, <<"**">>,
                <<"#", "#", " ", "Title", "\n", "-", " ", "**", "bold", "**">>}

StatusToken(st) ==
  CASE st = 500 -> "500" [] st = 503 -> "503" [] st = 502 -> "502" [] OTHER -> "200"

\* the Response fetch resolves with when the endpoint returned resp
Http(resp) == [status |-> resp.status, ok |-> resp.status \in 200..299, json |-> TRUE,
               answer |-> resp.answer, error |-> resp.body.error]

\* responses that do not come from the endpoint (a gateway in between)
BadGateway == [status |-> 502, ok |-> FALSE, json |-> FALSE,
               answer |-> Undefined, error |-> Undefined]
NotJson == [status |-> 200, ok |-> TRUE, json |-> FALSE,
            answer |-> Undefined, error |-> Undefined]

PageErrors == {Err(403, <<"overloaded">>, "ApiError"),
               Err(NoStatus, <<"bad ", "API key", " given">>, "ApiError"),
               Err(429, <<"quota", " exceeded">>, "ApiError"),
               Err(503, <<"overloaded">>, "ApiError")}

PageResponses ==
  {Http(SuccessResponse(a)) : a \in PageAnswers}
  \cup {Http(ErrorResponse(e)) : e \in PageErrors}
  \cup {BadGateway, NotJson}

PageInputs == {<< >>, <<" ">>, <<"q">>, <<"p">>}

PageFallback == <<"I'm not sure, but I can offer general Ayurvedic insight.">>
TroubleMessage ==
  <<"Sorry, I'm having trouble connecting right now. Please try again later.">>
ApiKeyMessage == <<"Configuration issue detected. Please check your AI API key.">>
QuotaMessage == <<"Service temporarily unavailable due to quota limits.">>

\* cleanBotText(data.answer || fallback) for every answer fetch can deliver
CleanedAnswer == [a \in PageAnswers \cup {PageFallback} |-> CleanBotText(a)]

\* the errorMessage chosen in the catch block of handleSend
PageErrorMessage(message) ==
  IF Includes(message, <<"API key">>) THEN ApiKeyMessage
  ELSE IF Includes(message, <<"quota">>) THEN QuotaMessage
  ELSE TroubleMessage

\* messages.map(msg => ({role: ..., parts: [{text: msg.text}]}))
RECURSIVE PageHistory(_)
PageHistory(msgs) ==
  IF msgs = << >> THEN << >>
  ELSE <<Entry(IF Head(msgs).sender = "bot" THEN <<"model">> ELSE <<"user">>,
               [kind |-> "array", items |-> <<TextPart(Head(msgs).text)>>])>>
       \o PageHistory(Tail(msgs))

PageInit ==
  /\ messages = <<BotMessage(Greeting)>>
  /\ input = << >>
  /\ loading = FALSE
  /\ ppc = "idle"
  /\ fetchBody = NoFetchBody
  /\ received = NoHttpResponse
  /\ sent = << >>
  /\ handleSendCalls = 0

\* the user edits the input box (it is disabled while loading)
TypeInput(I) ==
  /\ UNCHANGED <<postVars, retryVars, contextVars>>
  /\ ~loading
  /\ \E text \in I :
       /\ input' = text
       /\ UNCHANGED <<messages, loading, ppc, fetchBody, received, sent,
                      handleSendCalls>>

PageCatch_KeepsLoading(message) ==
  /\ messages' = Append(messages, BotMessage(PageErrorMessage(message)))
  /\ loading' = loading
  /\ ppc' = "idle"

\* catch { setMessages(prev => [...prev, error message]) } finally { setLoading(false) }
PageCatch(message) ==
  /\ messages' = Append(messages, BotMessage(PageErrorMessage(message)))
  /\ loading' = FALSE
  /\ ppc' = "idle"

\* handleSend is called (button and input are disabled while loading): a
\* blank input returns at once; otherwise the user message is appended, the
\* input cleared, loading set, and the request sent with the messages of the
\* render that created this handleSend
HandleSend ==
  /\ UNCHANGED <<postVars, retryVars, contextVars>>
  /\ ~loading
  /\ ppc = "idle"
  /\ handleSendCalls <= MaxSends
  /\ handleSendCalls' = handleSendCalls + 1
  /\ IF Trim(input) = << >>
     THEN UNCHANGED <<messages, input, loading, ppc, fetchBody, received, sent>>
     ELSE /\ messages' = Append(messages, UserMessage(input))
          /\ input' = << >>
          /\ loading' = TRUE
          /\ fetchBody' = [valid |-> TRUE, question |-> input,
                           history |-> [kind |-> "array",
                                        items |-> PageHistory(messages)]]
          /\ sent' = Append(sent, fetchBody')
          /\ ppc' = "await_fetch"
          /\ received' = NoHttpResponse

\* fetch resolves with a Response; !res.ok throws "API error: <status>"
FetchResolves(Rs) ==
  /\ UNCHANGED <<postVars, retryVars, contextVars>>
  /\ ppc = "await_fetch"
  /\ \E res \in Rs :
       /\ received' = res
       /\ IF ~res.ok
          THEN PageCatch(<<"API error: ", StatusToken(res.status)>>)
          ELSE /\ ppc' = "await_json"
               /\ UNCHANGED <<messages, loading>>
  /\ UNCHANGED <<input, fetchBody, sent, handleSendCalls>>

\* fetch rejects (no connection)
FetchRejects ==
  /\ UNCHANGED <<postVars, retryVars, contextVars>>
  /\ ppc = "await_fetch"
  /\ PageCatch(<<"Failed to fetch">>)
  /\ UNCHANGED <<input, fetchBody, received, sent, handleSendCalls>>

\* res.json() resolves: data.error throws, otherwise the cleaned answer is
\* appended
JsonResolves ==
  /\ UNCHANGED <<postVars, retryVars, contextVars>>
  /\ ppc = "await_json"
  /\ received.json
  /\ IF Truthy(received.error)
     THEN PageCatch(received.error)
     ELSE /\ messages' =
               Append(messages,
                      BotMessage(CleanedAnswer[Or(received.answer, PageFallback)]))
          /\ loading' = FALSE
          /\ ppc' = "idle"
  /\ UNCHANGED <<input, fetchBody, received, sent, handleSendCalls>>

\* res.json() rejects (the body is not JSON)
JsonRejects ==
  /\ UNCHANGED <<postVars, retryVars, contextVars>>
  /\ ppc = "await_json"
  /\ ~received.json
  /\ PageCatch(<<"Unexpected token">>)
  /\ UNCHANGED <<input, fetchBody, received, sent, handleSendCalls>>

\* ------------------------------------------------------- specifications
Init == PostInit /\ RetryInit /\ ContextInit /\ PageInit

\* one request through the endpoint
MainRequests == {1}

\* the steps of the requests in R, with inputs and replies drawn from the
\* given sets
Step(R, B, E, L, T, M) ==
  \/ \E r \in R : Invoke(r, B)
  \/ \E r \in R : SessionReturns(r)
  \/ \E r \in R : SessionFails(r, E)
  \/ \E r \in R : JsonReturns(r)
  \/ \E r \in R : JsonFails(r)
  \/ \E r \in R : RewriteReturns(r, T)
  \/ \E r \in R : RewriteFails(r, E)
  \/ \E r \in R : EmbedReturns(r)
  \/ \E r \in R : EmbedFails(r, L)
  \/ \E r \in R : QueryReturns(r, M)
  \/ \E r \in R : QueryFails(r, L)
  \/ \E r \in R : GenerateReturns(r, T)
  \/ \E r \in R : GenerateFails(r, L)

\* small inputs: one body with a question, one without JSON; one error per
\* outcome of the classifier; no match and one match
ConcBodies == {b \in Bodies : /\ b.history.kind = "array"
                              /\ Len(b.history.items) = 0
                              /\ b.question = <<"q">>} \cup {InvalidBody}
ConcErrors == {Err(403, <<"overloaded">>, "ApiError"),
               Err(429, <<"quota", " exceeded">>, "ApiError"),
               Err(503, <<"overloaded">>, "ApiError"),
               Err(NoStatus, Undefined, "ApiError")}
ConcMatchLists == {<< >>, << <<"A">> >>}

\* one request on every body; every error at the session lookup and the
\* rewrite call, one error per outcome of the classifier at the later calls
Next == Step(MainRequests, Bodies, ServiceErrors, ConcErrors, ResponseTexts, MatchLists)

Spec == Init /\ [][Next]_vars

\* all requests, interleaved at their awaits, on a small set of inputs
ConcNext ==
  Step(Requests, ConcBodies, ConcErrors, ConcErrors, ResponseTexts, ConcMatchLists)

ConcSpec == Init /\ [][ConcNext]_vars

\* the context construction applied to every list of up to MaxContextMatches
\* metadata texts
ContextSpecInit ==
  /\ PostInit /\ RetryInit /\ PageInit
  /\ matchesIn \in ContextInputs
  /\ contextOut = Undefined

ContextNext == BuildContext

ContextSpec == ContextSpecInit /\ [][ContextNext]_vars

\* the chat page against every response fetch can resolve with
PageNext ==
  \/ TypeInput(PageInputs)
  \/ HandleSend
  \/ FetchResolves(PageResponses)
  \/ FetchRejects
  \/ JsonResolves
  \/ JsonRejects

PageSpec == Init /\ [][PageNext]_vars

\* the chat page when every fetch and every res.json() settles
PageSettles ==
  \/ FetchResolves(PageResponses)
  \/ FetchRejects
  \/ JsonResolves
  \/ JsonRejects

PageLiveSpec == PageSpec /\ WF_vars(PageSettles)

\* one run of withRetry
RetryNext ==
  \/ \E m \in RetryBudgets, d \in DelayChoices : RetryStart(m, d)
  \/ FnReturns
  \/ \E e \in RetryErrors : FnFails(e)
  \/ DelayElapses

RetrySpec == Init /\ [][RetryNext]_vars

\* one request and one run of withRetry in which every awaited call settles
\* and every timer fires
UpstreamSettles(r) ==
  \/ SessionReturns(r)
  \/ SessionFails(r, ConcErrors)
  \/ JsonReturns(r)
  \/ JsonFails(r)
  \/ RewriteReturns(r, ResponseTexts)
  \/ RewriteFails(r, ConcErrors)
  \/ EmbedReturns(r)
  \/ EmbedFails(r, ConcErrors)
  \/ QueryReturns(r, ConcMatchLists)
  \/ QueryFails(r, ConcErrors)
  \/ GenerateReturns(r, ResponseTexts)
  \/ GenerateFails(r, ConcErrors)

FnSettles == FnReturns \/ \E e \in RetryErrors : FnFails(e)

LiveNext ==
  \/ \E r \in MainRequests : Invoke(r, ConcBodies)
  \/ \E r \in MainRequests : UpstreamSettles(r)
  \/ \E m \in RetryBudgets, d \in DelayChoices : RetryStart(m, d)
  \/ FnSettles
  \/ DelayElapses

LiveSpec ==
  /\ Init
  /\ [][LiveNext]_vars
  /\ \A r \in MainRequests : WF_vars(UpstreamSettles(r))
  /\ WF_vars(FnSettles)
  /\ WF_vars(DelayElapses)

\* ------------------------------------------------------------ properties
Issued(r, call) == \E i \in 1..Len(calls[r]) : calls[r][i] = call
TimesIssued(r, call) == Cardinality({i \in 1..Len(calls[r]) : calls[r][i] = call})
LastCall(r) == calls[r][Len(calls[r])]
GenerativeCalls == {"rewrite", "generate"}

\* the category a caller reads off an error body
ResponseCategory(resp) ==
  CASE resp.body.error = <<"Configuration issue with AI service">> -> "configuration"
    [] resp.body.error = <<"Service temporarily unavailable due to ", "quota", " limits">>
         -> "capacity"
    [] resp.body.error = <<"Chat service temporarily unavailable">> -> "generic"
    [] OTHER -> "none"

WellFormed(resp) ==
  \/ /\ resp.kind = "answer"
     /\ resp.status = 200
     /\ resp.answer # Undefined
  \/ /\ resp.kind = "error"
     /\ resp.status \in {500, 503}
     /\ resp.body.error \notin {Undefined, << >>}

\* C1: a request ends with an error caused by a 503 of a generative call
\* (rewrite or generate) only after that call has been attempted as often as
\* the retry budget allows; a single 503 never fails the request.
C1_GenerativeCallsRetried ==
  \A r \in Requests :
    (/\ pc[r] = "done"
     /\ response[r].kind = "error"
     /\ caught[r].status = 503
     /\ LastCall(r) \in GenerativeCalls)
    => TimesIssued(r, LastCall(r)) >= DefaultMaxRetries

\* C2: every invocation ends with one well-formed response; no failure of any
\* step leaves the handler as a raw exception.
C2_AlwaysWellFormedResponse ==
  \A r \in Requests :
    /\ pc[r] # "escaped"
    /\ pc[r] = "done" => WellFormed(response[r])

\* C3: whatever the shapes of the entries of a history array, normalization
\* raises nothing and the request goes on to the rewrite call.
C3_MalformedEntryAbsorbed ==
  \A r \in Requests :
    (/\ body[r].valid
     /\ body[r].history.kind = "array"
     /\ pc[r] \notin {"idle", "await_session", "await_json", "escaped"})
    => /\ Issued(r, "rewrite")
       /\ caught[r] # TypeError

\* an entry that has a role and a non-empty first text part
HasRoleAndText(msg) ==
  /\ msg.kind = "object"
  /\ msg.role \notin {Undefined, << >>}
  /\ msg.parts.kind = "array"
  /\ Len(msg.parts.items) >= 1
  /\ msg.parts.items[1].kind = "object"
  /\ msg.parts.items[1].text \notin {Undefined, << >>}

\* h is the subsequence of items selected by HasRoleAndText, each reduced to
\* its role and first text
IsNormalizationOf(h, items) ==
  LET kept == {i \in 1..Len(items) : HasRoleAndText(items[i])}
      rank(i) == Cardinality({j \in kept : j <= i})
  IN /\ Len(h) = Cardinality(kept)
     /\ \A i \in kept :
          h[rank(i)] = [role |-> items[i].role,
                        parts |-> <<[text |-> items[i].parts.items[1].text]>>]

\* C4: for every raw history array the handler computes a normalized history,
\* and it is the subsequence of the entries with a role and a non-empty first
\* text part, in order, each reduced to role and first text.
C4_NormalizedIsSubsequence ==
  \A r \in Requests :
    (/\ body[r].valid
     /\ body[r].history.kind = "array"
     /\ pc[r] \notin {"idle", "await_session", "await_json", "escaped"})
    => /\ Issued(r, "rewrite")
       /\ pc[r] = "await_rewrite" =>
            IsNormalizationOf(formattedHistory[r], body[r].history.items)

\* the part of C4 that the code does satisfy: when normalization raises
\* nothing, its result is that subsequence
NormalizedWhenNoThrow ==
  \A r \in Requests :
    pc[r] = "await_rewrite" =>
      IsNormalizationOf(formattedHistory[r], body[r].history.items)

PastRewrite(r) == Issued(r, "embed")

EndsWithUser(h) == Len(h) > 0 /\ h[Len(h)].role = <<"user">>

\* C5: once the rewrite post-step has run, the history has the normalized
\* length if the last normalized entry was a user turn and one more otherwise,
\* the entries before the last are untouched, and the last entry is a user
\* turn holding the enhanced question.
C5_PostRewriteHistory ==
  \A r \in Requests :
    PastRewrite(r) =>
      LET n == NormalizeValue(body[r].history)
          h == formattedHistory[r]
      IN /\ EndsWithUser(n) => Len(h) = Len(n)
         /\ ~EndsWithUser(n) => Len(h) = Len(n) + 1
         /\ \A i \in 1..(Len(h) - 1) : h[i] = n[i]
         /\ h[Len(h)].role = <<"user">>
         /\ h[Len(h)].parts = <<[text |-> enhancedQuestion[r]]>>
         /\ Truthy(enhancedQuestion[r])

C5_Witness ==
  \E r \in Requests :
    /\ PastRewrite(r)
    /\ EndsWithUser(NormalizeValue(body[r].history))
    /\ Len(formattedHistory[r]) = 2
    /\ formattedHistory[r][1].role = <<"model">>

Terminal == rpc \in {"returned", "thrown"}
Is503(o) == ~o.ok /\ o.error.status = 503
Invocations == Len(outcomes) + (IF rpc = "await_fn" THEN 1 ELSE 0)

\* C6: withRetry invokes fn again only after a failure with status 503 and
\* only while attempts remain: after two 503 failures with maxRetries = 3 there
\* is a third invocation whose value is returned; a first failure with another
\* status ends the run after one invocation with that same error and no delay.
C6_RetryOnlyTransient ==
  /\ \A i \in 1..Len(outcomes) :
       (i < Len(outcomes) \/ rpc = "await_delay") => Is503(outcomes[i])
  /\ (Terminal /\ outcomes # << >> /\ Is503(outcomes[Len(outcomes)]))
       => Len(outcomes) >= maxRetries
  /\ (Terminal /\ maxRetries = 3 /\ Len(outcomes) >= 2
        /\ Is503(outcomes[1]) /\ Is503(outcomes[2]))
       => /\ Len(outcomes) = 3
          /\ outcomes[3].ok => result = Returned(FnValue)
  /\ (Terminal /\ outcomes # << >> /\ ~outcomes[1].ok /\ outcomes[1].error.status # 503)
       => /\ Len(outcomes) = 1
          /\ result = Thrown(outcomes[1].error)
          /\ delays = << >>

C6_Witness ==
  /\ rpc = "returned"
  /\ maxRetries = 3
  /\ Len(outcomes) = 3
  /\ Is503(outcomes[1]) /\ Is503(outcomes[2])
  /\ result = Returned(FnValue)

\* C7: with maxRetries >= 1 and fn failing with 503 every time, fn is invoked
\* exactly maxRetries times and never more, the error of the last invocation
\* is what withRetry throws, and no delay follows the last invocation.
C7_ExhaustionPropagatesLast ==
  /\ (rpc # "idle" /\ maxRetries >= 1) => Invocations <= maxRetries
  /\ rpc = "await_delay" => Len(outcomes) < maxRetries
  /\ (Terminal /\ maxRetries >= 1 /\ outcomes # << >>
        /\ \A i \in 1..Len(outcomes) : Is503(outcomes[i]))
       => /\ Len(outcomes) = maxRetries
          /\ result = Thrown(outcomes[Len(outcomes)].error)
          /\ Len(delays) = maxRetries - 1

C7_Witness ==
  /\ rpc = "thrown"
  /\ maxRetries = 3
  /\ Len(outcomes) = 3
  /\ \A i \in 1..3 : Is503(outcomes[i])
  /\ outcomes[1].error # outcomes[3].error
  /\ result = Thrown(outcomes[3].error)

ConfigurationCondition(e) ==
  e.status = 403 \/ (e.message # Undefined /\ Includes(e.message, <<"API key">>))
CapacityCondition(e) ==
  e.status = 429 \/ (e.message # Undefined /\ Includes(e.message, <<"quota">>))

Failed500Or503(r) == pc[r] = "done" /\ response[r].kind = "error"

C9_DistinctStatusPerCategory ==
  \A r1, r2 \in Requests :
    (/\ Failed500Or503(r1)
     /\ Failed500Or503(r2)
     /\ ResponseCategory(response[r1]) # ResponseCategory(response[r2]))
    => response[r1].status # response[r2].status

\* C9 amended: the status is fixed by the category, 503 for capacity and 500
\* for configuration and for generic; so the status separates capacity from
\* the other two, which share 500.
C9_StatusByCategory ==
  \A r1, r2 \in Requests :
    (Failed500Or503(r1) /\ Failed500Or503(r2)) =>
      /\ ResponseCategory(response[r1]) = "capacity" <=> response[r1].status = 503
      /\ ResponseCategory(response[r1]) \in {"configuration", "generic"}
           <=> response[r1].status = 500
      /\ ResponseCategory(response[r1]) = ResponseCategory(response[r2])
           => response[r1].status = response[r2].status
      /\ (/\ ResponseCategory(response[r1]) = "capacity"
          /\ ResponseCategory(response[r2]) # "capacity")
           => response[r1].status # response[r2].status

C9_Witness ==
  \E r1, r2 \in Requests :
    /\ Failed500Or503(r1) /\ Failed500Or503(r2)
    /\ ResponseCategory(response[r1]) = "capacity"
    /\ ResponseCategory(response[r2]) = "configuration"
    /\ response[r1].status = 503
    /\ response[r2].status = 500

CallOrder == <<"session", "rewrite", "embed", "query", "generate">>

Sequential(r) ==
  /\ Cardinality(inflight[r]) <= 1
  /\ Len(calls[r]) <= Len(CallOrder)
  /\ calls[r] = SubSeq(CallOrder, 1, Len(calls[r]))
  /\ inflight[r] # {} => inflight[r] = {LastCall(r)}
  /\ (caught[r] # NoError \/ escaped[r] # NoError)
       => inflight[r] = {} /\ pc[r] \in {"done", "escaped"}
  /\ Issued(r, "rewrite") => ~NormalizeThrows(body[r].history)

IssuedInTurn(r) ==
  /\ calls'[r] # calls[r] =>
       /\ caught[r] = NoError /\ escaped[r] = NoError
       /\ caught'[r] = NoError /\ escaped'[r] = NoError
       /\ inflight[r] \subseteq (IF calls[r] = << >> THEN {} ELSE {LastCall(r)})
       /\ inflight'[r] = {calls'[r][Len(calls'[r])]}
       /\ Len(calls'[r]) = Len(calls[r]) + 1
  /\ pc[r] \in {"done", "escaped"} => calls'[r] = calls[r]

\* C10: the calls of one request are issued in the order session, rewrite,
\* embed, query, generate, each only when the one before has returned
\* successfully; at most one is outstanding at any time; after a failure no
\* further call is issued.
C10_StrictSequence ==
  /\ [](\A r \in Requests : Sequential(r))
  /\ [][\A r \in Requests : IssuedInTurn(r)]_vars

C10_Witness ==
  \E r \in Requests :
    /\ pc[r] = "done"
    /\ response[r].status = 200
    /\ calls[r] = CallOrder
    /\ inflight[r] = {}

\* a match contributes nothing: no text field, "" or whitespace only
BlankMatch(t) == t = Undefined \/ \A j \in 1..Len(t) : t[j] = " "
OnlyBlank(matches) == \A i \in 1..Len(matches) : BlankMatch(matches[i])
Placeholder == <<"No relevant context found.">>

\* C11: when the vector query returns no match or only blank matches, the
\* generate call is still issued, with the placeholder in its system
\* instruction, and if it returns the response is 200; every 200 response
\* carries a non-empty answer, the fallback sentence when the service gave
\* no text.
C11_EmptyContextStillAnswers ==
  \A r \in Requests :
    /\ (Issued(r, "query") /\ pc[r] = "await_generate")
         => /\ inflight[r] = {"generate"}
            /\ OnlyBlank(searchResults[r]) =>
                 /\ systemInstruction[r] = Persona \o Placeholder
                 /\ context[r] = << >>
    /\ (pc[r] = "done" /\ Issued(r, "generate") /\ caught[r] = NoError)
         => /\ response[r].status = 200
            /\ response[r].kind = "answer"
    /\ (pc[r] = "done" /\ response[r].kind = "answer")
         => /\ response[r].answer \notin {Undefined, << >>}
            /\ response[r].status = 200

C11_Witness ==
  \E r \in Requests :
    /\ pc[r] = "done"
    /\ searchResults[r] = << <<" ">> >>
    /\ systemInstruction[r] = Persona \o Placeholder
    /\ response[r].status = 200
    /\ response[r].answer = FallbackAnswer

NonEmpty(t) == t # Undefined /\ Len(t) > 0

\* C14: the enhanced question is the rewrite text if that is non-empty, else
\* the question of the request if that is non-empty, else the literal
\* "No question generated."; it is never empty, it is the argument of
\* embedQuery and the text of the last (user) turn of the history.
C14_EnhancedQuestionFallback ==
  \A r \in Requests :
    PastRewrite(r) =>
      /\ NonEmpty(rewriteText[r]) => enhancedQuestion[r] = rewriteText[r]
      /\ (~NonEmpty(rewriteText[r]) /\ NonEmpty(body[r].question))
           => enhancedQuestion[r] = body[r].question
      /\ (~NonEmpty(rewriteText[r]) /\ ~NonEmpty(body[r].question))
           => enhancedQuestion[r] = <<"No question generated.">>
      /\ NonEmpty(enhancedQuestion[r])
      /\ embedInput[r] = enhancedQuestion[r]
      /\ formattedHistory[r][Len(formattedHistory[r])]
           = [role |-> <<"user">>, parts |-> <<[text |-> enhancedQuestion[r]]>>]

C14_Witness ==
  \E r \in Requests :
    /\ PastRewrite(r)
    /\ rewriteText[r] = Undefined
    /\ body[r].question = << >>
    /\ embedInput[r] = <<"No question generated.">>

\* the components of request r
Own(r) == <<pc[r], body[r], formattedHistory[r], userHistory[r], enhancedQuestion[r],
            context[r], response[r], caught[r], escaped[r], inflight[r], calls[r],
            rewriteText[r], embedInput[r], searchResults[r], systemInstruction[r]>>

Touched(r) == Own(r)' # Own(r)

\* what request r holds is fixed by its own body and the replies to its own calls
FromOwnInput(r) ==
  /\ Issued(r, "rewrite") =>
       userHistory[r] = UserTexts(NormalizeValue(body[r].history))
  /\ pc[r] = "await_rewrite" =>
       formattedHistory[r] = NormalizeValue(body[r].history)
  /\ PastRewrite(r) =>
       /\ enhancedQuestion[r] = EnhancedQuestion(rewriteText[r], body[r].question)
       /\ formattedHistory[r] =
            ReplaceLast(NormalizeValue(body[r].history), enhancedQuestion[r])
  /\ Issued(r, "generate") =>
       /\ context[r] = Context(searchResults[r])
       /\ systemInstruction[r] = SystemInstruction(context[r])
  /\ (pc[r] = "done" /\ response[r].kind = "error") =>
       response[r] = ErrorResponse(caught[r])
  /\ pc[r] \notin {"done"} => response[r] = NoResponse

\* C12: in every interleaving of the requests at their awaits, a step changes
\* the components of one request only, and what a request holds is a function
\* of its own body and of the replies to its own calls.
C12_RequestsIsolated ==
  /\ [](\A r \in Requests : FromOwnInput(r))
  /\ [][\A r1, r2 \in Requests : (Touched(r1) /\ Touched(r2)) => r1 = r2]_vars

C12_Witness ==
  \E r1, r2 \in Requests :
    /\ pc[r1] = "done" /\ response[r1].status = 200
    /\ rewriteText[r1] = <<"r">>
    /\ pc[r2] = "await_generate"
    /\ rewriteText[r2] = Undefined
    /\ searchResults[r1] # searchResults[r2]

\* the pieces of s between separator tokens
RECURSIVE SplitAt(_, _)
SplitAt(s, sep) ==
  IF \A i \in 1..Len(s) : <<s[i]>> # sep THEN <<s>>
  ELSE LET k == CHOOSE i \in 1..Len(s) :
                  <<s[i]>> = sep /\ \A j \in 1..(i - 1) : <<s[j]>> # sep
       IN <<SubSeq(s, 1, k - 1)>> \o SplitAt(SubSeq(s, k + 1, Len(s)), sep)

\* C13: the context is the texts of the matches that are not blank (missing
\* text counts as ""), unchanged and in ranked order, joined by the separator
\* "\n\n---\n\n"; the texts "", " ", "A", "B" give "A\n\n---\n\nB".
C13_ContextBlock ==
  contextOut # Undefined =>
    LET kept == {i \in 1..Len(matchesIn) : ~BlankMatch(matchesIn[i])}
        rank(i) == Cardinality({j \in kept : j <= i})
        pieces == SplitAt(contextOut, <<"\n\n---\n\n">>)
    IN /\ kept = {} => contextOut = << >>
       /\ kept # {} =>
            /\ Len(pieces) = Cardinality(kept)
            /\ \A i \in kept : pieces[rank(i)] = matchesIn[i]
       /\ matchesIn = << << >>, <<" ">>, <<"A">>, <<"B">> >>
            => contextOut = <<"A", "\n\n---\n\n", "B">>

C13_Witness ==
  /\ matchesIn = << << >>, <<" ">>, <<"A">>, <<"B">> >>
  /\ contextOut = <<"A", "\n\n---\n\n", "B">>

RECURSIVE Pow2(_)
Pow2(n) == IF n = 0 THEN 1 ELSE 2 * Pow2(n - 1)

\* C15: the k-th delay of a run is the initial delay times 2^(k-1) (1000 then
\* 2000 with the defaults); a delay is taken only after a failed attempt that
\* another attempt follows, so a run has at most maxRetries - 1 delays.
C15_ExponentialBackoff ==
  /\ \A k \in 1..Len(delays) : delays[k] = initialDelayMs * Pow2(k - 1)
  /\ (initialDelayMs = 1000 /\ Len(delays) >= 2)
       => delays[1] = 1000 /\ delays[2] = 2000
  /\ rpc = "await_delay"
       => /\ Len(delays) = Len(outcomes)
          /\ Len(outcomes) < maxRetries
          /\ delayMs = delays[Len(delays)]
  /\ (rpc # "await_delay" /\ Invocations >= 1) => Len(delays) = Invocations - 1
  /\ Invocations = 0 => delays = << >>
  /\ delays # << >> => Len(delays) <= maxRetries - 1

C15_Witness ==
  /\ maxRetries = 4
  /\ initialDelayMs = 1000
  /\ delays = <<1000, 2000, 4000>>
  /\ rpc = "thrown"

\* C18: "Max retries reached without success" is thrown only when
\* maxRetries <= 0, and then fn was never invoked; with maxRetries >= 1 the run
\* ends by returning fn's value or by rethrowing the error of fn's last
\* invocation.
C18_ExhaustionOnlyWithoutAttempts ==
  /\ result = Thrown(ExhaustedError) => maxRetries <= 0 /\ outcomes = << >>
  /\ (rpc # "idle" /\ maxRetries <= 0)
       => /\ rpc = "thrown"
          /\ result = Thrown(ExhaustedError)
          /\ outcomes = << >>
  /\ (Terminal /\ maxRetries >= 1)
       => /\ outcomes # << >>
          /\ outcomes[Len(outcomes)].ok => result = Returned(FnValue)
          /\ ~outcomes[Len(outcomes)].ok
               => result = Thrown(outcomes[Len(outcomes)].error)

C18_Witness ==
  /\ rpc = "thrown"
  /\ maxRetries <= 0
  /\ result = Thrown(ExhaustedError)
  /\ outcomes = << >>

\* ---- chat page
LastMessage == messages[Len(messages)]
Handled == ppc = "idle" /\ sent # << >>
RequestFailed == ~(received.ok /\ received.json) \/ Truthy(received.error)

\* C16: once the page has handled the outcome of its request, the last
\* message is the API-key message when the endpoint answered with the
\* configuration error body, the quota message when it answered with the
\* capacity error body, and the connection-trouble message after any other
\* failure.
C16_ErrorMessageFromFailureText ==
  Handled =>
    CASE received.error = ConfigurationText ->
           LastMessage = BotMessage(ApiKeyMessage)
      [] received.error = CapacityText ->
           LastMessage = BotMessage(QuotaMessage)
      [] RequestFailed ->
           LastMessage = BotMessage(TroubleMessage)
      [] OTHER -> TRUE

ErrorMessages == {TroubleMessage, ApiKeyMessage, QuotaMessage}

\* between handleSend and the outcome: one user message more than bot
\* replies, loading
SendInFlight ==
  /\ Len(messages) = 2 * Len(sent)
  /\ LastMessage = UserMessage(fetchBody.question)
  /\ loading

\* after the outcome: the user message and then one bot message, not loading
SendHandled ==
  /\ Len(messages) = 2 * Len(sent) + 1
  /\ ~loading
  /\ sent # << >> =>
       /\ messages[Len(messages) - 1] = UserMessage(fetchBody.question)
       /\ LastMessage.sender = "bot"
       /\ IF RequestFailed
          THEN LastMessage.text \in ErrorMessages
          ELSE LastMessage.text = CleanBotText(received.answer)

BlankSendIsNoOp ==
  (handleSendCalls' # handleSendCalls /\ Trim(input) = << >>)
     => UNCHANGED <<messages, input, loading, ppc, fetchBody, received, sent>>

NonBlankSendStarts ==
  (handleSendCalls' # handleSendCalls /\ Trim(input) # << >>)
     => /\ messages' = Append(messages, UserMessage(input))
        /\ loading'
        /\ Len(sent') = Len(sent) + 1

\* C19: a handleSend with non-blank input appends one user message and,
\* when the request has succeeded or failed, one bot message after it (the
\* cleaned answer or an error message); loading is true in between and
\* eventually false again; a handleSend with blank input changes nothing and
\* sends nothing.
C19_SendAppendsUserThenBot ==
  /\ [](IF ppc = "idle" THEN SendHandled ELSE SendInFlight)
  /\ [][BlankSendIsNoOp /\ NonBlankSendStarts]_vars
  /\ (loading ~> ~loading)

C19_Witness ==
  /\ ppc = "idle" /\ ~loading
  /\ handleSendCalls = 3
  /\ Len(messages) = 5
  /\ messages[3] = BotMessage(<<"Title", "\n", "bold">>)
  /\ messages[5] = BotMessage(TroubleMessage)

\* the message list as it was before the i-th question was added
MessagesBefore(i) == SubSeq(messages, 1, 2 * i - 1)

\* the texts of the user messages before the i-th question, in order
EarlierQuestions(i) ==
  LET um == SelectSeq(MessagesBefore(i), LAMBDA m : m.sender = "user")
  IN [j \in 1..Len(um) |-> um[j].text]

MappedFrom(items, msgs) ==
  /\ Len(items) = Len(msgs)
  /\ \A j \in 1..Len(msgs) :
       /\ items[j].role = (IF msgs[j].sender = "bot" THEN <<"model">> ELSE <<"user">>)
       /\ items[j].parts.items = <<TextPart(msgs[j].text)>>

\* what the endpoint's post-rewrite step makes of the history of request b
\* when the rewrite call returned text
PostRewrite(b, text) ==
  ReplaceLast(NormalizeValue(b.history), EnhancedQuestion(text, b.question))

\* C20: the history of every request the page sent is the message list
\* before the question (bot as "model", same order), it ends with a "model"
\* entry and the question is the message after it; and the endpoint's
\* post-rewrite step on that history appends the enhanced question, keeping
\* every earlier user turn.
C20_HistoryExcludesQuestion ==
  \A i \in 1..Len(sent) :
    LET b == sent[i]
        items == b.history.items
        fh == NormalizeValue(b.history)
    IN /\ MappedFrom(items, MessagesBefore(i))
       /\ items[Len(items)].role = <<"model">>
       /\ messages[2 * i] = UserMessage(b.question)
       /\ ~NormalizeThrows(b.history)
       /\ \A text \in ResponseTexts :
            /\ PostRewrite(b, text)
                 = Append(fh, UserTurn(EnhancedQuestion(text, b.question)))
            /\ UserTexts(PostRewrite(b, text))
                 = EarlierQuestions(i) \o <<EnhancedQuestion(text, b.question)>>

\* ---- termination
PostFinished(r) == pc[r] \in {"done", "escaped"}
PostRunning(r) == pc[r] # "idle" /\ ~PostFinished(r)
AtMost(n) == IF n > 0 THEN n ELSE 0

====
